---- MODULE Spec2Model ----
(***************************************************************************)
(* Model of osm2pgsql's gazetteer output: the place-table deleter          *)
(* (db_deleter_place_t), the copy manager bound to the place table          *)
(* (gazetteer_copy_mgr_t) and the style engine (gazetteer_style_t), all     *)
(* declared in src/src/gazetteer-style.hpp.                                 *)
(*                                                                         *)
(* Strings are sequences of symbols, so that splitting a comma-separated    *)
(* class list and prefix/suffix matching of keys are computed, not assumed. *)
(***************************************************************************)
EXTENDS Integers, Sequences, FiniteSets, TLC

VARIABLES
    place,          \* the rows stored in the place table: [osm_type, osm_id, class]
    m_deletables,   \* db_deleter_place_t::m_deletables of the deleter being filled
    calls,          \* history: the arguments of the add calls behind m_deletables
    last,           \* history: the last deleter operation and what it found
    m_rows,         \* the copy manager's current insert buffer (rows not yet flushed)
    queue,          \* flushed buffers handed to the copy thread, oldest first
    w_pc,           \* the copy thread: "idle", "delete", "copy" or "aborted"
    w_buf,          \* the buffer the copy thread is working on
    hist,           \* history: the producer's operations in the order it made them
    log,            \* history: what the copy thread has applied to the table, in order
    style_pc,       \* gazetteer_style_t: "new", "loaded", or "failed" (load_style threw)
    m_matcher,      \* gazetteer_style_t::m_matcher
    m_default,      \* gazetteer_style_t::m_default
    m_any_operator_matches,
    m_main,         \* class/type pairs to include: <<key, value, flags>>
    m_names,        \* name tags to include: <<key, value>>
    m_extra,        \* extratags to include
    m_address,      \* addresstags to include
    m_operator,     \* value of operator tag, or Null
    m_admin_level,  \* admin level
    style,          \* history: the rule triples load_style was given
    lookup          \* history: the object process_tags last saw and the flags it found

deleter_vars == <<m_deletables, calls, last>>
pipe_vars == <<m_rows, queue, w_pc, w_buf, hist, log>>
table_vars == <<style_pc, m_matcher, m_default, m_any_operator_matches, style>>
object_vars == <<m_main, m_names, m_extra, m_address, m_operator, m_admin_level, lookup>>
style_vars == <<table_vars, object_vars>>
vars == <<place, deleter_vars, pipe_vars, style_vars>>

Range(s) == {s[n] : n \in 1..Len(s)}

----------------------------------------------------------------------------
(* Bounds and input universes of the deleter.                              *)

MaxPending == 2

Comma == ","

\* class names (non-empty, comma-free strings)
Classes == {<<"a">>, <<"a", "b">>}

\* object identities present in the table, and those that deletes are issued for
RowIds == {<<"N", 1>>, <<"N", 2>>, <<"W", 1>>}
CallIds == {<<"N", 1>>, <<"N", 2>>}

Rows == [osm_type : {"N", "W"}, osm_id : {1, 2}, class : Classes]

TableRows == {r \in Rows : <<r.osm_type, r.osm_id>> \in RowIds}

\* the keep lists handed to add: "", "a", "ab", "a,ab"
KeepLists == {<<>>, <<"a">>, <<"a", "b">>, <<"a", Comma, "a", "b">>}

----------------------------------------------------------------------------
(* db_deleter_place_t                                                      *)

Max_entries == 100000

\* mutant: the constructor that forgets to initialise osm_id
item_t_noid(t, i) == [classes |-> <<>>, osm_id |-> 0, osm_type |-> t]

\* mutant: the constructor that forgets to initialise classes
item_t_noclasses(t, i, c) == [classes |-> <<>>, osm_id |-> i, osm_type |-> t]

\* mutant: the three-argument constructor that forgets to initialise osm_id
item_t_classes_noid(t, i, c) == [classes |-> c, osm_id |-> 0, osm_type |-> t]

item_t_classes(t, i, c) == [classes |-> c, osm_id |-> i, osm_type |-> t]

\* the two-argument constructor leaves classes default-constructed: empty
item_t(t, i) == [classes |-> <<>>, osm_id |-> i, osm_type |-> t]

\* mutant: has_data with the negation lost
has_data_inverted(d) == Len(d) = 0

has_data(d) == Len(d) # 0

\* mutant: add with a class list that calls the constructor without it
add_classes_dropped(d, osm_type, osm_id, classes) ==
    Append(d, [classes |-> <<>>, osm_id |-> osm_id, osm_type |-> osm_type])

\* mutant: add refusing further items once the threshold is exceeded
add_classes_capped(d, osm_type, osm_id, classes) ==
    IF Len(d) > Max_entries THEN d
    ELSE Append(d, [classes |-> classes, osm_id |-> osm_id, osm_type |-> osm_type])

add_classes(d, osm_type, osm_id, classes) ==
    Append(d, item_t_classes(osm_type, osm_id, classes))

add(d, osm_type, osm_id) == Append(d, item_t(osm_type, osm_id))

\* mutant: the threshold test off by one
is_full_at_limit(d) == Len(d) >= Max_entries

\* mutant: the threshold test one item late
is_full_late(d) == Len(d) > Max_entries + 1

is_full(d) == Len(d) > Max_entries

\* the comma-separated class list of an item, split at the commas
RECURSIVE split_classes(_, _)
split_classes(s, cur) ==
    IF s = <<>> THEN <<cur>>
    ELSE IF Head(s) = Comma
         THEN <<cur>> \o split_classes(Tail(s), <<>>)
         ELSE split_classes(Tail(s), Append(cur, Head(s)))

\* the predicate one item contributes to the DELETE: identity matches AND
\* (keep list empty OR class not in keep list)
item_deletes(item, row) ==
    /\ row.osm_type = item.osm_type
    /\ row.osm_id = item.osm_id
    /\ \/ item.classes = <<>>
       \/ row.class \notin Range(split_classes(item.classes, <<>>))

\* the rows the accumulated deletes remove from the table
doomed_rows(d, table) ==
    {r \in table : \E n \in 1..Len(d) : item_deletes(d[n], r)}

\* delete_rows on success: what is left of the table
delete_rows(d, table) == table \ doomed_rows(d, table)

\* delete_rows on a transport failure: any part of the batch may have been applied
delete_rows_failed(d, table) ==
    {table \ gone : gone \in SUBSET doomed_rows(d, table)}

----------------------------------------------------------------------------
(* gazetteer_style_t                                                       *)

\* mutant: the sentinel one short of the highest admin level
MAX_ADMINLEVEL_short == 15 - 1

MAX_ADMINLEVEL == 15

\* enum style_flags (SF_MAIN ..., written sf_ here: SF_ is the fairness operator)
sf_MAIN == 1
sf_MAIN_NAMED == 2
sf_MAIN_NAMED_KEY == 4
\* mutant: the fallback enumerator sharing the bit of SF_MAIN
sf_MAIN_FALLBACK_unshifted == sf_MAIN

sf_MAIN_FALLBACK == 8
\* mutant: the operator enumerator sharing the bit of SF_NAME
sf_MAIN_OPERATOR_as_name == 2 * 16

sf_MAIN_OPERATOR == 16
sf_NAME == 32
sf_REF == 64
sf_ADDRESS == 128
sf_ADDRESS_POINT == 256
sf_POSTCODE == 512
sf_COUNTRY == 1024
sf_EXTRA == 2048
sf_INTERPOLATION == 4096
sf_BOUNDARY == 8192

\* enum class matcher_t
MT_FULL == 0
MT_KEY == 1
MT_PREFIX == 2
MT_SUFFIX == 3
MT_VALUE == 4

\* flag_t is a uint16_t used as a bit set
has_flag(f, bit) == (f \div bit) % 2 = 1

style_flags ==
    <<sf_MAIN, sf_MAIN_NAMED, sf_MAIN_NAMED_KEY, sf_MAIN_FALLBACK, sf_MAIN_OPERATOR,
      sf_NAME, sf_REF, sf_ADDRESS, sf_ADDRESS_POINT, sf_POSTCODE, sf_COUNTRY,
      sf_EXTRA, sf_INTERPOLATION, sf_BOUNDARY>>

RECURSIVE flag_or_from(_, _, _)
flag_or_from(f, g, n) ==
    IF n > Len(style_flags) THEN 0
    ELSE (IF has_flag(f, style_flags[n]) \/ has_flag(g, style_flags[n])
          THEN style_flags[n] ELSE 0) + flag_or_from(f, g, n + 1)

\* f | g
flag_or(f, g) == flag_or_from(f, g, 1)

\* mutant: the constructor that leaves type at its first enumerator
string_with_flag_t_untyped(n, f, t) == [name |-> n, flag |-> f, type |-> MT_FULL]

\* mutant: the constructor that does not store the flags
string_with_flag_t_unflagged(n, f, t) == [name |-> n, flag |-> 0, type |-> t]

string_with_flag_t(n, f, t) == [name |-> n, flag |-> f, type |-> t]

\* the wildcard marker of a rule pattern, and the separator between the key
\* and the value in the name of a full-match entry
Wild == "*"
Nul == "\\0"

\* what parse_flags answers for a flag text it does not accept
ConfigError == -1

\* mutant: the name table that takes an unknown name for no flag at all
flag_of_name_lenient(name) ==
    CASE name = "Main" -> sf_MAIN
      [] name = "MainNamed" -> sf_MAIN_NAMED
      [] name = "MainNamedKey" -> sf_MAIN_NAMED_KEY
      [] name = "MainFallback" -> sf_MAIN_FALLBACK
      [] name = "MainOperator" -> sf_MAIN_OPERATOR
      [] name = "Name" -> sf_NAME
      [] name = "Ref" -> sf_REF
      [] name = "Address" -> sf_ADDRESS
      [] name = "AddressPoint" -> sf_ADDRESS_POINT
      [] name = "Postcode" -> sf_POSTCODE
      [] name = "Country" -> sf_COUNTRY
      [] name = "Extra" -> sf_EXTRA
      [] name = "Interpolation" -> sf_INTERPOLATION
      [] name = "Boundary" -> sf_BOUNDARY
      [] OTHER -> 0

flag_of_name(name) ==
    CASE name = "Main" -> sf_MAIN
      [] name = "MainNamed" -> sf_MAIN_NAMED
      [] name = "MainNamedKey" -> sf_MAIN_NAMED_KEY
      [] name = "MainFallback" -> sf_MAIN_FALLBACK
      [] name = "MainOperator" -> sf_MAIN_OPERATOR
      [] name = "Name" -> sf_NAME
      [] name = "Ref" -> sf_REF
      [] name = "Address" -> sf_ADDRESS
      [] name = "AddressPoint" -> sf_ADDRESS_POINT
      [] name = "Postcode" -> sf_POSTCODE
      [] name = "Country" -> sf_COUNTRY
      [] name = "Extra" -> sf_EXTRA
      [] name = "Interpolation" -> sf_INTERPOLATION
      [] name = "Boundary" -> sf_BOUNDARY
      [] OTHER -> ConfigError

\* the flag text of a rule is a list of role names
RECURSIVE parse_flags(_)
parse_flags(str) ==
    IF str = <<>> THEN 0
    ELSE LET rest == parse_flags(Tail(str))
             bit == flag_of_name(Head(str))
         IN  IF rest = ConfigError \/ bit = ConfigError THEN ConfigError
             ELSE flag_or(bit, rest)

absent(pattern) == pattern = <<>> \/ pattern = <<Wild>>

\* mutant: m_default initialised to a non-empty flag set
empty_table_default_name == [matcher |-> <<>>, default |-> sf_NAME, any_operator |-> FALSE]

\* mutant: m_any_operator_matches initialised to true
empty_table_operator == [matcher |-> <<>>, default |-> 0, any_operator |-> TRUE]

empty_table == [matcher |-> <<>>, default |-> 0, any_operator |-> FALSE]

add_style_entry(t, key, value, flags) ==
    LET t1 == [t EXCEPT !.any_operator = @ \/ has_flag(flags, sf_MAIN_OPERATOR)]
        entry(n, kind) == [t1 EXCEPT !.matcher = Append(@, string_with_flag_t(n, flags, kind))]
    IN  IF absent(key)
        THEN IF absent(value)
             THEN [t1 EXCEPT !.default = flags]
             ELSE entry(value, MT_VALUE)
        ELSE IF key[Len(key)] = Wild THEN entry(SubSeq(key, 1, Len(key) - 1), MT_PREFIX)
        ELSE IF key[1] = Wild THEN entry(Tail(key), MT_SUFFIX)
        ELSE IF absent(value) THEN entry(key, MT_KEY)
        ELSE entry(key \o <<Nul>> \o value, MT_FULL)

\* load_style over the tokenized rule triples: stops at the first rule whose
\* flag text is not accepted
RECURSIVE load_style(_, _)
load_style(t, rules) ==
    IF rules = <<>> THEN [ok |-> TRUE, table |-> t]
    ELSE LET flags == parse_flags(Head(rules).flags)
         IN  IF flags = ConfigError THEN [ok |-> FALSE, table |-> t]
             ELSE load_style(add_style_entry(t, Head(rules).key, Head(rules).value, flags),
                             Tail(rules))

entry_matches(e, k, v) ==
    CASE e.type = MT_FULL -> e.name = k \o <<Nul>> \o v
      [] e.type = MT_KEY -> e.name = k
      [] e.type = MT_PREFIX ->
            Len(e.name) <= Len(k) /\ SubSeq(k, 1, Len(e.name)) = e.name
      [] e.type = MT_SUFFIX ->
            Len(e.name) <= Len(k) /\ SubSeq(k, Len(k) - Len(e.name) + 1, Len(k)) = e.name
      [] e.type = MT_VALUE -> e.name = v

\* the precedence level of a match kind: prefix and suffix share one
match_level(type) == IF type = MT_SUFFIX THEN MT_PREFIX ELSE type

Min(S) == CHOOSE x \in S : \A y \in S : x <= y

find_flag(matcher, default, k, v) ==
    LET matching == {n \in 1..Len(matcher) : entry_matches(matcher[n], k, v)}
    IN  IF matching = {} THEN default
        ELSE LET level == Min({match_level(matcher[n].type) : n \in matching})
                 first == Min({n \in matching : match_level(matcher[n].type) = level})
             IN  matcher[first].flag

digit(sym) ==
    CASE sym = "0" -> 0 [] sym = "1" -> 1 [] sym = "2" -> 2 [] sym = "3" -> 3
      [] sym = "4" -> 4 [] sym = "5" -> 5 [] sym = "6" -> 6 [] sym = "7" -> 7
      [] sym = "8" -> 8 [] sym = "9" -> 9 [] OTHER -> -1

\* the integer a value spells, or -1 when it does not spell one
RECURSIVE parse_level(_, _)
parse_level(v, acc) ==
    IF v = <<>> THEN acc
    ELSE IF digit(Head(v)) < 0 THEN -1
    ELSE parse_level(Tail(v), 10 * acc + digit(Head(v)))

main_bits(f) ==
    \/ has_flag(f, sf_MAIN)
    \/ has_flag(f, sf_MAIN_NAMED)
    \/ has_flag(f, sf_MAIN_NAMED_KEY)
    \/ has_flag(f, sf_MAIN_FALLBACK)

\* a name variant of the key k: an attribute "name:<k>"
has_namekey(tags, k) == \E n \in 1..Len(tags) : tags[n][1] = <<"name:">> \o k

\* filter_main_tags: which of the candidate main tags are kept
filter_main_tags(is_named, tags, main, operator_present) ==
    LET stronger == \E n \in 1..Len(main) : ~has_flag(main[n][3], sf_MAIN_FALLBACK)
        keep(e) ==
            /\ \/ has_flag(e[3], sf_MAIN_NAMED) /\ is_named
               \/ has_flag(e[3], sf_MAIN_NAMED_KEY) /\ has_namekey(tags, e[1])
               \/ has_flag(e[3], sf_MAIN_FALLBACK) /\ ~stronger
               \/ /\ has_flag(e[3], sf_MAIN)
                  /\ ~has_flag(e[3], sf_MAIN_NAMED)
                  /\ ~has_flag(e[3], sf_MAIN_NAMED_KEY)
                  /\ ~has_flag(e[3], sf_MAIN_FALLBACK)
            /\ has_flag(e[3], sf_MAIN_OPERATOR) => operator_present
    IN  SelectSeq(main, keep)

\* mutant: clear() that does not empty the names
clear_keeps_names(c) ==
    [main |-> <<>>, names |-> c.names, extra |-> <<>>, address |-> <<>>,
     operator |-> <<>>, admin_level |-> MAX_ADMINLEVEL]

\* clear(): the cached object data, reset
clear(c) ==
    [main |-> <<>>, names |-> <<>>, extra |-> <<>>, address |-> <<>>,
     operator |-> <<>>, admin_level |-> MAX_ADMINLEVEL]

\* the object data as constructed (the members' initialisers)
new_object_data ==
    [main |-> <<>>, names |-> <<>>, extra |-> <<>>, address |-> <<>>,
     operator |-> <<>>, admin_level |-> MAX_ADMINLEVEL]

\* process_tags over the tags of one object; c is the cached data of the
\* object before, t the style data
process_tags(c, t, tags) ==
    LET c0 == clear(c)
        found == [n \in 1..Len(tags) |->
                    <<tags[n][1], tags[n][2], find_flag(t.matcher, t.default, tags[n][1], tags[n][2])>>]
        is_named == \E n \in 1..Len(found) : has_flag(found[n][3], sf_NAME)
        is_boundary == \E n \in 1..Len(found) : has_flag(found[n][3], sf_BOUNDARY)
        is_operator(e) == e[1] = <<"operator">> /\ has_flag(e[3], sf_MAIN_OPERATOR)
        is_level(e) ==
            /\ e[1] = <<"admin_level">>
            /\ parse_level(e[2], 0) >= 0
            /\ parse_level(e[2], 0) <= MAX_ADMINLEVEL
            /\ e[2] # <<>>
        is_main(e) == main_bits(e[3])
        is_name(e) == has_flag(e[3], sf_NAME) \/ has_flag(e[3], sf_REF)
        is_address(e) ==
            \/ has_flag(e[3], sf_ADDRESS) \/ has_flag(e[3], sf_ADDRESS_POINT)
            \/ has_flag(e[3], sf_POSTCODE) \/ has_flag(e[3], sf_COUNTRY)
        is_extra(e) == has_flag(e[3], sf_EXTRA)
        pair(s) == [n \in 1..Len(s) |-> <<s[n][1], s[n][2]>>]
        operators == IF t.any_operator THEN SelectSeq(found, is_operator) ELSE <<>>
        operator == IF operators = <<>> THEN c0.operator ELSE <<operators[1][2]>>
        levels == IF is_boundary THEN SelectSeq(found, is_level) ELSE <<>>
        main == filter_main_tags(is_named, tags, c0.main \o SelectSeq(found, is_main),
                                 operator # <<>>)
        synthetic == IF operator = <<>> THEN <<>>
                     ELSE [n \in 1..Len(main) |-> <<main[n][1] \o <<":operator">>, operator[1]>>]
    IN  [main |-> main,
         names |-> c0.names \o pair(SelectSeq(found, is_name)) \o synthetic,
         extra |-> c0.extra \o pair(SelectSeq(found, is_extra)),
         address |-> c0.address \o pair(SelectSeq(found, is_address)),
         operator |-> operator,
         admin_level |-> IF levels = <<>> THEN c0.admin_level
                         ELSE parse_level(levels[1][2], 0),
         flags |-> [n \in 1..Len(found) |-> found[n][3]],
         is_named |-> is_named]

\* mutant: has_data() answering for an empty m_main
style_has_data_inverted(main) == Len(main) = 0

\* gazetteer_style_t::has_data
style_has_data(main) == Len(main) # 0

object_data ==
    [main |-> m_main, names |-> m_names, extra |-> m_extra, address |-> m_address,
     operator |-> m_operator, admin_level |-> m_admin_level]

style_data ==
    [matcher |-> m_matcher, default |-> m_default, any_operator |-> m_any_operator_matches]

\* again: process_tags had been called before the call recorded here
NoLookup == [tags |-> <<>>, flags |-> <<>>, is_named |-> FALSE, seen |-> FALSE, again |-> FALSE]

\* the style object after construction
StyleNew ==
    /\ style_pc = "new"
    /\ m_matcher = empty_table.matcher
    /\ m_default = empty_table.default
    /\ m_any_operator_matches = empty_table.any_operator
    /\ m_main = new_object_data.main
    /\ m_names = new_object_data.names
    /\ m_extra = new_object_data.extra
    /\ m_address = new_object_data.address
    /\ m_operator = new_object_data.operator
    /\ m_admin_level = new_object_data.admin_level
    /\ style = <<>>
    /\ lookup = NoLookup

LoadStyle(rules) ==
    /\ style_pc = "new"
    /\ \E loaded \in {load_style(empty_table, rules)} :
           /\ style_pc' = IF loaded.ok THEN "loaded" ELSE "failed"
           /\ m_matcher' = loaded.table.matcher
           /\ m_default' = loaded.table.default
           /\ m_any_operator_matches' = loaded.table.any_operator
    /\ style' = rules
    /\ UNCHANGED <<place, deleter_vars, pipe_vars, object_vars>>

ProcessTags(tags) ==
    /\ style_pc = "loaded"
    /\ \E c \in {process_tags(object_data, style_data, tags)} :
           /\ m_main' = c.main
           /\ m_names' = c.names
           /\ m_extra' = c.extra
           /\ m_address' = c.address
           /\ m_operator' = c.operator
           /\ m_admin_level' = c.admin_level
           /\ lookup' = [tags |-> tags, flags |-> c.flags, is_named |-> c.is_named,
                         seen |-> TRUE, again |-> lookup.seen]
    /\ UNCHANGED <<place, deleter_vars, pipe_vars, table_vars>>

----------------------------------------------------------------------------
(* The deleter driven directly: any sequence of add and delete_rows calls. *)

NoOp == [op |-> "none", ok |-> TRUE, before |-> {}, batch |-> <<>>]

NoBuffer == [deleter |-> <<>>, rows |-> <<>>, calls |-> <<>>]

\* the copy manager and its thread, not in use
PipeIdle ==
    /\ m_rows = <<>>
    /\ queue = <<>>
    /\ w_pc = "idle"
    /\ w_buf = NoBuffer
    /\ hist = <<>>
    /\ log = <<>>
    /\ StyleNew

DeleterInit ==
    /\ place \in SUBSET TableRows
    /\ m_deletables = <<>>
    /\ calls = <<>>
    /\ last = NoOp
    /\ PipeIdle

AddClasses(t, i, c) ==
    /\ Len(m_deletables) < MaxPending
    /\ m_deletables' = add_classes(m_deletables, t, i, c)
    /\ calls' = Append(calls, [osm_type |-> t, osm_id |-> i, has |-> TRUE, keep |-> c])
    /\ last' = [op |-> "add", ok |-> TRUE, before |-> {}, batch |-> <<>>]
    /\ UNCHANGED <<place, pipe_vars, style_vars>>

Add(t, i) ==
    /\ Len(m_deletables) < MaxPending
    /\ m_deletables' = add(m_deletables, t, i)
    /\ calls' = Append(calls, [osm_type |-> t, osm_id |-> i, has |-> FALSE, keep |-> <<>>])
    /\ last' = [op |-> "add", ok |-> TRUE, before |-> {}, batch |-> <<>>]
    /\ UNCHANGED <<place, pipe_vars, style_vars>>

DeleteRows ==
    /\ place' = delete_rows(m_deletables, place)
    /\ m_deletables' = <<>>
    /\ calls' = <<>>
    /\ last' = [op |-> "delete_rows", ok |-> TRUE, before |-> place, batch |-> calls]
    /\ UNCHANGED <<pipe_vars, style_vars>>

DeleteRowsFails ==
    /\ has_data(m_deletables)
    /\ place' \in delete_rows_failed(m_deletables, place)
    /\ m_deletables' = <<>>
    /\ calls' = <<>>
    /\ last' = [op |-> "delete_rows", ok |-> FALSE, before |-> place, batch |-> calls]
    /\ UNCHANGED <<pipe_vars, style_vars>>

Next ==
    \/ \E id \in CallIds, c \in KeepLists : AddClasses(id[1], id[2], c)
    \/ \E id \in CallIds : Add(id[1], id[2])
    \/ DeleteRows
    \/ DeleteRowsFails

Spec == DeleterInit /\ [][Next]_vars

----------------------------------------------------------------------------
(* Properties of the deleter.                                              *)

SameIdentity(r, c) == r.osm_type = c.osm_type /\ r.osm_id = c.osm_id

\* class occurs as a whole element of the comma-separated list s
InList(class, s) ==
    \E i \in 1..Len(s) : \E j \in i..Len(s) :
        /\ SubSeq(s, i, j) = class
        /\ i = 1 \/ s[i - 1] = Comma
        /\ j = Len(s) \/ s[j + 1] = Comma

\* what the call c (the arguments of one add) asks to be removed
CallCovers(c, r) ==
    SameIdentity(r, c) /\ (c.has => ~InList(r.class, c.keep))

Flushed == last.op = "delete_rows" /\ last.ok

\* C1: keep-list delete. After add(kind, id, keep_classes) and a successful
\* delete_rows, every stored row of that identity whose class is not in the
\* keep list is gone; a row of that identity whose class is in the list, and a
\* row of any other identity, is still there unless another add of the same
\* batch asked for its removal; nothing is added to the table.
C1_KeepListDelete ==
    Flushed =>
        /\ place \subseteq last.before
        /\ \A n \in 1..Len(last.batch) :
             last.batch[n].has =>
               \A r \in last.before :
                 IF SameIdentity(r, last.batch[n]) /\ ~InList(r.class, last.batch[n].keep)
                 THEN r \notin place
                 ELSE \/ r \in place
                      \/ \E m \in (1..Len(last.batch)) \ {n} : CallCovers(last.batch[m], r)

\* a batch of one conditional delete removed a row, kept a row of the same
\* identity whose class is listed, and left a row of another identity alone
C1_Witness ==
    /\ Flushed
    /\ Len(last.batch) = 1
    /\ last.batch[1].has
    /\ \E r \in last.before \ place : SameIdentity(r, last.batch[1])
    /\ \E r \in place : SameIdentity(r, last.batch[1]) /\ InList(r.class, last.batch[1].keep)
    /\ \E r \in place : ~SameIdentity(r, last.batch[1])

\* C5: delete_rows always consumes the batch. After delete_rows has returned
\* or failed, the pending list is empty, has_data() and is_full() are false,
\* and at any time the pending list holds exactly as many items as were added
\* since the last delete_rows, so nothing of a consumed batch is issued again.
C5_BatchConsumed ==
    /\ last.op = "delete_rows" =>
         /\ m_deletables = <<>>
         /\ ~has_data(m_deletables)
         /\ ~is_full(m_deletables)
    /\ Len(m_deletables) = Len(calls)

\* a non-empty batch was consumed by a delete_rows that failed part-way
C5_Witness ==
    /\ last.op = "delete_rows"
    /\ ~last.ok
    /\ Len(last.batch) >= 1
    /\ place # last.before
    /\ ~has_data(m_deletables)

\* C6: unconditional delete. After add(kind, id) and a successful delete_rows
\* no stored row of that identity is left, whatever its class, and a row of
\* another identity is gone only if another add of the batch covers it.
C6_UnconditionalDelete ==
    Flushed =>
        \A n \in 1..Len(last.batch) :
          ~last.batch[n].has =>
            /\ \A r \in last.before : SameIdentity(r, last.batch[n]) => r \notin place
            /\ \A r \in last.before \ place :
                 \/ SameIdentity(r, last.batch[n])
                 \/ \E m \in (1..Len(last.batch)) \ {n} : CallCovers(last.batch[m], r)

\* a batch of one unconditional delete removed rows of two classes of its
\* identity and left the rows of another identity alone
C6_Witness ==
    /\ Flushed
    /\ Len(last.batch) = 1
    /\ ~last.batch[1].has
    /\ Cardinality({r.class : r \in last.before \ place}) = 2
    /\ \E r \in place : ~SameIdentity(r, last.batch[1])
    /\ place = {r \in last.before : ~SameIdentity(r, last.batch[1])}

----------------------------------------------------------------------------
(* The deleter filled up to its flush threshold.  A caller that adds one    *)
(* unconditional delete per object is followed through runs of n            *)
(* consecutive add calls, so that the pending list crosses Max_entries.     *)

Slack == 6

\* n consecutive calls add(osm_type, osm_id)
add_repeated(d, n, osm_type, osm_id) ==
    d \o [k \in 1..n |-> item_t(osm_type, osm_id)]

FullInit ==
    /\ place = {}
    /\ m_deletables = <<>>
    /\ calls = <<>>
    /\ last = NoOp
    /\ PipeIdle

NearThreshold(n) == n < Slack \/ n >= Max_entries - Slack

FullAddRun ==
    /\ Len(m_deletables) <= Slack
    /\ m_deletables' = add_repeated(m_deletables, Max_entries - Slack, "N", 1)
    /\ calls' = calls \o [k \in 1..(Max_entries - Slack) |->
                            [osm_type |-> "N", osm_id |-> 1, has |-> FALSE, keep |-> <<>>]]
    /\ last' = [op |-> "add", ok |-> TRUE, before |-> {}, batch |-> <<>>]
    /\ UNCHANGED <<place, pipe_vars, style_vars>>

FullAdd ==
    /\ NearThreshold(Len(m_deletables))
    /\ Len(m_deletables) < Max_entries + Slack
    /\ m_deletables' = add_classes(m_deletables, "N", 2, <<"a">>)
    /\ calls' = Append(calls, [osm_type |-> "N", osm_id |-> 2, has |-> TRUE, keep |-> <<"a">>])
    /\ last' = [op |-> "add", ok |-> TRUE, before |-> {}, batch |-> <<>>]
    /\ UNCHANGED <<place, pipe_vars, style_vars>>

FullNext == FullAddRun \/ FullAdd \/ DeleteRows \/ DeleteRowsFails

SpecFull == FullInit /\ [][FullNext]_vars

\* C4: flush threshold. After any sequence of add and delete_rows calls
\* is_full() is true exactly when more than 100,000 items have been added
\* since the last delete_rows: true at 100,001, false at 99,999 and at 100,000.
C4_FlushThreshold ==
    /\ is_full(m_deletables) <=> Len(calls) > 100000
    /\ Len(calls) = 100001 => is_full(m_deletables)
    /\ Len(calls) \in {99999, 100000} => ~is_full(m_deletables)

\* the 100,001st item has just been added and is_full() has turned true
C4_Witness ==
    /\ last.op = "add"
    /\ Len(calls) = 100001
    /\ is_full(m_deletables)

----------------------------------------------------------------------------
(* gazetteer_copy_mgr_t: db_copy_mgr_t<db_deleter_place_t> bound to the     *)
(* place table.  The producer fills the current buffer (a deleter and the   *)
(* rows to copy) and flushes it as a unit to the copy thread, which applies *)
(* each buffer's deletes and then copies its rows.                          *)

MaxOps == 3

PipeIds == {<<"N", 1>>, <<"N", 2>>}
PipeRows == {r \in Rows : <<r.osm_type, r.osm_id>> \in PipeIds}
PipeKeepLists == {<<"a">>}

Ops == Cardinality({n \in 1..Len(hist) : hist[n].op # "flush"})

PipeInit ==
    /\ place \in {{}, PipeRows}
    /\ m_deletables = <<>>
    /\ calls = <<>>
    /\ last = NoOp
    /\ PipeIdle

PipeAddClasses(t, i, c) ==
    /\ Ops < MaxOps
    /\ m_deletables' = add_classes(m_deletables, t, i, c)
    /\ calls' = Append(calls, [osm_type |-> t, osm_id |-> i, has |-> TRUE, keep |-> c])
    /\ hist' = Append(hist, [op |-> "delete", osm_type |-> t, osm_id |-> i])
    /\ UNCHANGED <<place, last, m_rows, queue, w_pc, w_buf, log, style_vars>>

PipeAdd(t, i) ==
    /\ Ops < MaxOps
    /\ m_deletables' = add(m_deletables, t, i)
    /\ calls' = Append(calls, [osm_type |-> t, osm_id |-> i, has |-> FALSE, keep |-> <<>>])
    /\ hist' = Append(hist, [op |-> "delete", osm_type |-> t, osm_id |-> i])
    /\ UNCHANGED <<place, last, m_rows, queue, w_pc, w_buf, log, style_vars>>

\* mutant: prepare() that starts no line
prepare_no_line(rows, row) == rows

\* prepare() starts a new line in the buffer, which the caller fills and finishes
prepare(rows, row) == Append(rows, row)

PipeCopyRow(row) ==
    /\ Ops < MaxOps
    /\ m_rows' = prepare(m_rows, row)
    /\ hist' = Append(hist, [op |-> "insert", osm_type |-> row.osm_type,
                             osm_id |-> row.osm_id, class |-> row.class])
    /\ UNCHANGED <<place, deleter_vars, queue, w_pc, w_buf, log, style_vars>>

\* the buffer handed over at a flush: the deleter and the rows together
flushed_buffer(d, rows, cs) == [deleter |-> d, rows |-> rows, calls |-> cs]

PipeFlush ==
    /\ has_data(m_deletables) \/ m_rows # <<>>
    /\ queue' = Append(queue, flushed_buffer(m_deletables, m_rows, calls))
    /\ m_deletables' = <<>>
    /\ calls' = <<>>
    /\ m_rows' = <<>>
    /\ hist' = Append(hist, [op |-> "flush"])
    /\ UNCHANGED <<place, last, w_pc, w_buf, log, style_vars>>

\* the number of the buffer the copy thread is working on (or has just finished)
Taken == Cardinality({n \in 1..Len(hist) : hist[n].op = "flush"}) - Len(queue)

WorkerTake ==
    /\ w_pc = "idle"
    /\ queue # <<>>
    /\ w_buf' = Head(queue)
    /\ queue' = Tail(queue)
    /\ w_pc' = "delete"
    /\ UNCHANGED <<place, deleter_vars, m_rows, hist, log, style_vars>>

WorkerDelete ==
    /\ w_pc = "delete"
    /\ IF has_data(w_buf.deleter)
       THEN /\ place' = delete_rows(w_buf.deleter, place)
            /\ last' = [op |-> "delete_rows", ok |-> TRUE, before |-> place,
                        batch |-> w_buf.calls]
            /\ log' = Append(log, [op |-> "delete_rows", seg |-> Taken])
       ELSE UNCHANGED <<place, last, log>>
    /\ w_buf' = [w_buf EXCEPT !.deleter = <<>>, !.calls = <<>>]
    /\ w_pc' = "copy"
    /\ UNCHANGED <<m_deletables, calls, m_rows, queue, hist, style_vars>>

WorkerDeleteFails ==
    /\ w_pc = "delete"
    /\ has_data(w_buf.deleter)
    /\ place' \in delete_rows_failed(w_buf.deleter, place)
    /\ last' = [op |-> "delete_rows", ok |-> FALSE, before |-> place,
                batch |-> w_buf.calls]
    /\ w_buf' = [w_buf EXCEPT !.deleter = <<>>, !.calls = <<>>]
    /\ w_pc' = "aborted"
    /\ UNCHANGED <<m_deletables, calls, m_rows, queue, hist, log, style_vars>>

WorkerCopy ==
    /\ w_pc = "copy"
    /\ place' = place \cup Range(w_buf.rows)
    /\ log' = Append(log, [op |-> "copy", seg |-> Taken])
    /\ w_buf' = NoBuffer
    /\ w_pc' = "idle"
    /\ UNCHANGED <<deleter_vars, m_rows, queue, hist, style_vars>>

PipeNext ==
    \/ \E id \in PipeIds, c \in PipeKeepLists : PipeAddClasses(id[1], id[2], c)
    \/ \E id \in PipeIds : PipeAdd(id[1], id[2])
    \/ \E row \in PipeRows : PipeCopyRow(row)
    \/ PipeFlush
    \/ WorkerTake
    \/ WorkerDelete
    \/ WorkerDeleteFails
    \/ WorkerCopy

SpecPipe == PipeInit /\ [][PipeNext]_vars

----------------------------------------------------------------------------
(* Properties of the copy manager and its thread.                          *)

\* the number of the buffer that the producer's n-th operation went into
Seg(n) == 1 + Cardinality({q \in 1..(n - 1) : hist[q].op = "flush"})

Unflushed(op) ==
    Cardinality({n \in 1..Len(hist) : hist[n].op = op /\ Seg(n) = Seg(Len(hist) + 1)})

\* C2: delete-before-insert ordering. When the rows of a buffer have been
\* copied (are visible), every delete the producer enqueued before one of
\* those inserts, for the same identity, was applied by an earlier delete_rows;
\* no delete_rows runs after the copy of its own or a later buffer; and the
\* deleter and the insert buffer are flushed together, neither holding
\* anything of an already flushed segment.
C2_DeleteBeforeInsert ==
    /\ \A s \in 1..Len(hist) : \A n \in 1..Len(log) :
         (hist[s].op = "insert" /\ log[n].op = "copy" /\ log[n].seg = Seg(s)) =>
           \A sd \in 1..(s - 1) :
             (hist[sd].op = "delete" /\ SameIdentity(hist[sd], hist[s])) =>
               \E m \in 1..(n - 1) : log[m].op = "delete_rows" /\ log[m].seg = Seg(sd)
    /\ \A n \in 1..Len(log) : \A m \in 1..(n - 1) :
         (log[n].op = "delete_rows" /\ log[m].op = "copy") => log[m].seg < log[n].seg
    /\ Len(m_deletables) = Unflushed("delete")
    /\ Len(m_rows) = Unflushed("insert")

\* a delete and then an insert for the same identity were enqueued, flushed in
\* different buffers, and the inserted row is now visible
C2_Witness ==
    \E s \in 1..Len(hist) : \E sd \in 1..(s - 1) :
        /\ hist[s].op = "insert"
        /\ hist[sd].op = "delete"
        /\ SameIdentity(hist[sd], hist[s])
        /\ Seg(sd) < Seg(s)
        /\ \E n \in 1..Len(log) : log[n].op = "copy" /\ log[n].seg = Seg(s)
        /\ \E r \in place : SameIdentity(r, hist[s]) /\ r.class = hist[s].class

\* C3: keep-list safety under overlap. Whenever the copy thread has run a
\* batch of deletes, also after rows of the same identity were copied and
\* also when the batch failed part-way, a stored row whose class is in the
\* keep list of a conditional delete of its identity is still stored, unless
\* another delete of the same batch asked for its removal.
C3_KeepListSafeUnderOverlap ==
    last.op = "delete_rows" =>
        \A n \in 1..Len(last.batch) : \A r \in last.before :
          (/\ last.batch[n].has
           /\ SameIdentity(r, last.batch[n])
           /\ InList(r.class, last.batch[n].keep)) =>
             \/ r \in place
             \/ \E m \in (1..Len(last.batch)) \ {n} : CallCovers(last.batch[m], r)

\* a row was inserted and copied, then a conditional delete for its identity
\* that lists its class ran, removed another row of that identity and left
\* the inserted row in the table
C3_Witness ==
    /\ last.op = "delete_rows"
    /\ Len(log) >= 2
    /\ log[Len(log)].op = "delete_rows"
    /\ \E s \in 1..Len(hist) : \E a \in 1..(Len(log) - 1) :
         /\ hist[s].op = "insert"
         /\ log[a].op = "copy" /\ log[a].seg = Seg(s)
         /\ \E r \in place :
              /\ SameIdentity(r, hist[s]) /\ r.class = hist[s].class
              /\ \E n \in 1..Len(last.batch) :
                   /\ last.batch[n].has
                   /\ SameIdentity(r, last.batch[n])
                   /\ InList(r.class, last.batch[n].keep)
              /\ \E q \in last.before \ place : SameIdentity(q, r)

----------------------------------------------------------------------------
(* The style engine: a style is loaded once, then objects are classified.   *)

MaxRules == 3

\* all sequences of at most n rules out of the set rules
RuleSeqs(rules, n) == UNION {[1..m -> rules] : m \in 0..n}

\* the tags of seq whose positions are in S, in the order of seq
TagsAt(seq, S) ==
    LET F[n \in 0..Len(seq)] ==
            IF n = 0 THEN <<>>
            ELSE IF n \in S THEN Append(F[n - 1], seq[n]) ELSE F[n - 1]
    IN  F[Len(seq)]

StyleInit ==
    /\ place = {}
    /\ m_deletables = <<>>
    /\ calls = <<>>
    /\ last = NoOp
    /\ PipeIdle

Rule(k, v, f) == [key |-> k, value |-> v, flags |-> f]

\* rules of every match kind over the keys "a", "ab", "b" and the values "x", "y"
MatchPatterns ==
    { <<<<"a">>, <<"x">>>>,          \* full
      <<<<"a">>, <<Wild>>>>,         \* key only
      <<<<"a", Wild>>, <<>>>>,       \* prefix
      <<<<Wild, "b">>, <<>>>>,       \* suffix
      <<<<>>, <<"x">>>> }            \* value only

MatchRules ==
    {Rule(p[1], p[2], f) : p \in MatchPatterns, f \in {<<"Name">>, <<"Extra">>}}
        \cup {Rule(<<>>, <<>>, <<"Address">>)}

MatchObjects ==
    { <<t>> : t \in { <<<<"a">>, <<"x">>>>, <<<<"a">>, <<"y">>>>, <<<<"a", "b">>, <<"x">>>>,
                      <<<<"a", "b">>, <<"y">>>>, <<<<"b">>, <<"y">>>> } }
        \cup { << <<<<"a">>, <<"x">>>>, <<<<"a", "b">>, <<"y">>>> >> }

MatchNext ==
    \/ style_pc = "new" /\ \E rules \in RuleSeqs(MatchRules, MaxRules) : LoadStyle(rules)
    \/ \E tags \in MatchObjects : ProcessTags(tags)

SpecMatch == StyleInit /\ [][MatchNext]_vars

MaxMainRules == 2

\* key-only rules that make main tags, and a rule that makes names
MainRules ==
    { Rule(<<"building">>, <<Wild>>, <<"MainFallback">>),
      Rule(<<"shop">>, <<Wild>>, <<"Main">>),
      Rule(<<"tourism">>, <<Wild>>, <<"MainNamed">>),
      Rule(<<"name">>, <<Wild>>, <<"Name">>),
      Rule(<<"tourism">>, <<Wild>>, <<"MainNamed", "MainFallback">>),
      Rule(<<"tourism">>, <<Wild>>, <<"MainNamedKey", "MainFallback">>),
      Rule(<<"building">>, <<Wild>>, <<"MainFallback", "MainOperator">>) }

MainTags ==
    << <<<<"building">>, <<"yes">>>>,
       <<<<"shop">>, <<"bakery">>>>,
       <<<<"tourism">>, <<"viewpoint">>>>,
       <<<<"name">>, <<"Belvedere">>>>,
       <<<<"name:", "tourism">>, <<"Belvedere">>>> >>

MainObjects == {TagsAt(MainTags, S) : S \in SUBSET (1..Len(MainTags))}

MainNext ==
    \/ style_pc = "new" /\ \E rules \in RuleSeqs(MainRules, MaxMainRules) : LoadStyle(rules)
    \/ \E tags \in MainObjects : ProcessTags(tags)

SpecMain == StyleInit /\ [][MainNext]_vars

----------------------------------------------------------------------------
(* Properties of the rule lookup, stated over the rule triples as declared. *)

RuleKind(r) ==
    IF absent(r.key) THEN (IF absent(r.value) THEN "Default" ELSE "ValueOnly")
    ELSE IF r.key[Len(r.key)] = Wild THEN "Prefix"
    ELSE IF r.key[1] = Wild THEN "Suffix"
    ELSE IF absent(r.value) THEN "KeyOnly"
    ELSE "Full"

RuleMatches(r, k, v) ==
    CASE RuleKind(r) = "Full" -> r.key = k /\ r.value = v
      [] RuleKind(r) = "KeyOnly" -> r.key = k
      [] RuleKind(r) = "Prefix" -> \E rest \in 0..Len(k) : SubSeq(k, 1, Len(k) - rest) \o <<Wild>> = r.key
      [] RuleKind(r) = "Suffix" -> \E rest \in 0..Len(k) : <<Wild>> \o SubSeq(k, rest + 1, Len(k)) = r.key
      [] RuleKind(r) = "ValueOnly" -> r.value = v
      [] OTHER -> FALSE

\* Full > KeyOnly > Prefix/Suffix > ValueOnly
Strength(r) ==
    CASE RuleKind(r) = "Full" -> 4
      [] RuleKind(r) = "KeyOnly" -> 3
      [] RuleKind(r) \in {"Prefix", "Suffix"} -> 2
      [] OTHER -> 1

RECURSIVE SumOf(_)
SumOf(S) == IF S = {} THEN 0 ELSE LET x == CHOOSE y \in S : TRUE IN x + SumOf(S \ {x})

DeclaredFlags(r) == SumOf({flag_of_name(name) : name \in Range(r.flags)})

\* the rules of the loaded style that match the n-th tag of the object last seen
Matching(n) ==
    {i \in 1..Len(style) : RuleMatches(style[i], lookup.tags[n][1], lookup.tags[n][2])}

Looked == IF style_pc = "loaded" THEN 1..Len(lookup.tags) ELSE {}

\* C7: rule precedence by match kind. The flags found for an attribute are
\* those of a matching rule of the strongest matching kind, in the order
\* Full > KeyOnly > Prefix/Suffix > ValueOnly; when a KeyOnly and a Full rule
\* both match they are a Full rule's flags, whichever was declared first.
C7_RulePrecedence ==
    \A n \in Looked :
        /\ Matching(n) # {} =>
             \E i \in Matching(n) :
                /\ \A j \in Matching(n) : Strength(style[j]) <= Strength(style[i])
                /\ lookup.flags[n] = DeclaredFlags(style[i])
        /\ (\E i, j \in Matching(n) :
               RuleKind(style[i]) = "Full" /\ RuleKind(style[j]) = "KeyOnly") =>
             \E i \in Matching(n) :
                RuleKind(style[i]) = "Full" /\ lookup.flags[n] = DeclaredFlags(style[i])

\* a KeyOnly rule declared before a Full rule with other flags, both matching
\* the attribute looked up, and the Full rule's flags found
C7_Witness ==
    \E n \in Looked : \E i, j \in Matching(n) :
        /\ j < i
        /\ RuleKind(style[i]) = "Full"
        /\ RuleKind(style[j]) = "KeyOnly"
        /\ DeclaredFlags(style[i]) # DeclaredFlags(style[j])
        /\ lookup.flags[n] = DeclaredFlags(style[i])

\* C8 as claimed: whenever two rules of the same match kind both match an
\* attribute, the lookup returns the flags of the one declared earlier.
C8_Original ==
    \A n \in Looked : \A i, j \in Matching(n) :
        (i < j /\ RuleKind(style[i]) = RuleKind(style[j])) =>
            lookup.flags[n] = DeclaredFlags(style[i])

\* C8, amended: when two rules of the same match kind both match an attribute,
\* no matching rule is of a stronger kind and no matching rule of the same
\* precedence level is declared before the earlier of the two, the lookup
\* returns the flags of the earlier one.
C8_StableFirstMatch ==
    \A n \in Looked : \A i, j \in Matching(n) :
        (/\ i < j
         /\ RuleKind(style[i]) = RuleKind(style[j])
         /\ \A h \in Matching(n) :
              /\ Strength(style[h]) <= Strength(style[i])
              /\ Strength(style[h]) = Strength(style[i]) => h >= i) =>
            lookup.flags[n] = DeclaredFlags(style[i])

\* two rules of one kind with different flags both match the attribute looked
\* up, nothing stronger or earlier does, and the earlier rule's flags are found
C8_Witness ==
    \E n \in Looked : \E i, j \in Matching(n) :
        /\ i < j
        /\ RuleKind(style[i]) = RuleKind(style[j])
        /\ \A h \in Matching(n) :
              /\ Strength(style[h]) <= Strength(style[i])
              /\ Strength(style[h]) = Strength(style[i]) => h >= i
        /\ DeclaredFlags(style[i]) # DeclaredFlags(style[j])
        /\ lookup.flags[n] = DeclaredFlags(style[i])

----------------------------------------------------------------------------
(* Properties of the main-tag selection, stated over the declared flag names
   of the rule that decides each attribute of the object last seen. *)

Defaults == {i \in 1..Len(style) : RuleKind(style[i]) = "Default"}

\* the rule that decides the n-th attribute: strongest kind, then earliest
Winner(n) ==
    CHOOSE i \in Matching(n) :
        \A h \in Matching(n) :
            \/ Strength(style[h]) < Strength(style[i])
            \/ Strength(style[h]) = Strength(style[i]) /\ h >= i

Roles(n) ==
    IF Matching(n) # {} THEN Range(style[Winner(n)].flags)
    ELSE IF Defaults # {} THEN Range(style[CHOOSE i \in Defaults : \A h \in Defaults : h <= i].flags)
    ELSE {}

Candidates ==
    {n \in Looked : Roles(n) \cap {"Main", "MainNamed", "MainNamedKey", "MainFallback"} # {}}

Retained(n) ==
    \E e \in 1..Len(m_main) :
        m_main[e][1] = lookup.tags[n][1] /\ m_main[e][2] = lookup.tags[n][2]

Unconditional(n) ==
    /\ "Main" \in Roles(n)
    /\ Roles(n) \cap {"MainNamed", "MainNamedKey", "MainFallback", "MainOperator"} = {}

FallbackOnly(n) ==
    /\ "MainFallback" \in Roles(n)
    /\ Roles(n) \cap {"MainNamed", "MainNamedKey", "MainOperator"} = {}

NamedOnly(n) ==
    /\ "MainNamed" \in Roles(n)
    /\ Roles(n) \cap {"MainNamedKey", "MainFallback", "MainOperator"} = {}

MainPairs == [e \in 1..Len(m_main) |-> <<m_main[e][1], m_main[e][2]>>]

FallbackExample ==
    /\ style = << Rule(<<"building">>, <<Wild>>, <<"MainFallback">>),
                  Rule(<<"shop">>, <<Wild>>, <<"Main">>) >>
    /\ style_pc = "loaded"
    /\ lookup.tags = << <<<<"building">>, <<"yes">>>>, <<<<"shop">>, <<"bakery">>>> >>

C10_Original ==
    \A n \in Candidates :
        "MainNamed" \in Roles(n) =>
            /\ Retained(n) <=> lookup.is_named
            /\ Candidates = {n} =>
                  /\ Len(m_main) = (IF lookup.is_named THEN 1 ELSE 0)
                  /\ style_has_data(m_main) <=> lookup.is_named

\* C10, amended: a main candidate whose sole conditional flag is MainNamed is
\* retained if and only if the object is named; an object whose only main
\* candidate is such an attribute yields zero main entries (has_data() false)
\* when is_named is false and exactly one main entry when is_named is true.
C10_NamedGateLaw ==
    \A n \in Candidates :
        NamedOnly(n) =>
            /\ Retained(n) <=> lookup.is_named
            /\ Candidates = {n} =>
                  /\ MainPairs = (IF lookup.is_named THEN <<lookup.tags[n]>> ELSE <<>>)
                  /\ style_has_data(m_main) <=> lookup.is_named

\* the unnamed viewpoint under tourism=MainNamed: looked up, gated out
C10_Witness ==
    /\ style_pc = "loaded"
    /\ \E n \in Candidates :
          /\ Candidates = {n}
          /\ NamedOnly(n)
          /\ lookup.tags[n] = <<<<"tourism">>, <<"viewpoint">>>>
          /\ ~lookup.is_named
          /\ m_main = <<>>
          /\ ~style_has_data(m_main)

\* the named viewpoint under the same rule: one main entry
C10_NamedWitness ==
    \E n \in Candidates :
        /\ Candidates = {n}
        /\ NamedOnly(n)
        /\ lookup.is_named
        /\ MainPairs = << <<<<"tourism">>, <<"viewpoint">>>> >>

----------------------------------------------------------------------------
(* More properties of the deleter driven directly.                          *)

\* the item that the call c (the arguments of one add) leaves in the list
ItemOf(c) == [classes |-> c.keep, osm_id |-> c.osm_id, osm_type |-> c.osm_type]

\* C17: exceeding the threshold is not an error. add never fails and never
\* drops or reorders items, also when the batch already holds more than
\* 100,000 items: the pending list is exactly the items added since the last
\* delete_rows, in order of addition, and has_data() is true exactly when
\* that list is non-empty.
C17_AddNeverFails ==
    /\ m_deletables = [n \in 1..Len(calls) |-> ItemOf(calls[n])]
    /\ has_data(m_deletables) <=> calls # <<>>
    /\ last.op = "add" => has_data(m_deletables)

\* an item with a class list has just been added to a list that already held
\* more than 100,000 items, and it is the last of the list
C17_Witness ==
    /\ last.op = "add"
    /\ Len(calls) > 100001
    /\ is_full(SubSeq(m_deletables, 1, Len(m_deletables) - 1))
    /\ m_deletables[Len(m_deletables)] = [classes |-> <<"a">>, osm_id |-> 2, osm_type |-> "N"]
    /\ has_data(m_deletables)

\* C20: a delete item stores its keep list as a plain string that is empty
\* when none was given, so add(kind, id, "") and add(kind, id) leave
\* indistinguishable items; a conditional delete whose keep list is the empty
\* string deletes every row of that identity, like an unconditional delete.
C20_EmptyKeepList ==
    /\ \A n, m \in 1..Len(calls) :
          (/\ SameIdentity(calls[n], calls[m])
           /\ calls[n].has /\ calls[n].keep = <<>>
           /\ ~calls[m].has) =>
             /\ m_deletables[n] = m_deletables[m]
             /\ m_deletables[n].classes = <<>>
    /\ Flushed =>
          \A n \in 1..Len(last.batch) :
             (last.batch[n].has /\ last.batch[n].keep = <<>>) =>
                \A r \in last.before : SameIdentity(r, last.batch[n]) => r \notin place

\* a batch of one add(kind, id, "") removed rows of two classes of its
\* identity, all there were, and left the rows of another identity alone
C20_Witness ==
    /\ Flushed
    /\ Len(last.batch) = 1
    /\ last.batch[1].has
    /\ last.batch[1].keep = <<>>
    /\ Cardinality({r.class : r \in last.before \ place}) = 2
    /\ \E r \in place : ~SameIdentity(r, last.batch[1])
    /\ \A r \in place : ~SameIdentity(r, last.batch[1])

\* add(kind, id, "") and add(kind, id) for one identity pending side by side
C20_PendingWitness ==
    \E n, m \in 1..Len(calls) :
        /\ SameIdentity(calls[n], calls[m])
        /\ calls[n].has /\ calls[n].keep = <<>>
        /\ ~calls[m].has
        /\ m_deletables[n] = m_deletables[m]

----------------------------------------------------------------------------
(* The deleter under the caller's discipline: is_full() is polled after     *)
(* every add, and delete_rows is called whenever it reports true.           *)

PollInit ==
    /\ place \in {{}, {[osm_type |-> "N", osm_id |-> 1, class |-> <<"a">>]}}
    /\ m_deletables = <<>>
    /\ calls = <<>>
    /\ last = NoOp
    /\ PipeIdle

Polled == last.op # "add"

\* Max_entries - Slack times: add, then a poll of is_full() that answers false
PollAddRun ==
    /\ Polled
    /\ Len(m_deletables) <= Slack
    /\ ~is_full(add_repeated(m_deletables, Max_entries - Slack, "N", 1))
    /\ m_deletables' = add_repeated(m_deletables, Max_entries - Slack, "N", 1)
    /\ calls' = calls \o [k \in 1..(Max_entries - Slack) |->
                            [osm_type |-> "N", osm_id |-> 1, has |-> FALSE, keep |-> <<>>]]
    /\ last' = [op |-> "polled", ok |-> TRUE, before |-> {}, batch |-> <<>>]
    /\ UNCHANGED <<place, pipe_vars, style_vars>>

PollAdd ==
    /\ Polled
    /\ NearThreshold(Len(m_deletables))
    /\ Len(m_deletables) < Max_entries + Slack
    /\ m_deletables' = add_classes(m_deletables, "N", 2, <<"a">>)
    /\ calls' = Append(calls, [osm_type |-> "N", osm_id |-> 2, has |-> TRUE, keep |-> <<"a">>])
    /\ last' = [op |-> "add", ok |-> TRUE, before |-> {}, batch |-> <<>>]
    /\ UNCHANGED <<place, pipe_vars, style_vars>>

\* the poll after an add: not full, carry on
PollNotFull ==
    /\ ~Polled
    /\ ~is_full(m_deletables)
    /\ last' = [op |-> "polled", ok |-> TRUE, before |-> {}, batch |-> <<>>]
    /\ UNCHANGED <<place, m_deletables, calls, pipe_vars, style_vars>>

\* the poll after an add: full, so the batch is flushed
PollFull ==
    /\ ~Polled
    /\ is_full(m_deletables)
    /\ DeleteRows

PollFullFails ==
    /\ ~Polled
    /\ is_full(m_deletables)
    /\ DeleteRowsFails

\* a flush for another reason (the end of the input, a flush of the rows)
PollFlush ==
    /\ Polled
    /\ Len(m_deletables) < Slack
    /\ DeleteRows

PollNext ==
    \/ PollAddRun
    \/ PollAdd
    \/ PollNotFull
    \/ PollFull
    \/ PollFullFails
    \/ PollFlush

SpecPoll == PollInit /\ [][PollNext]_vars

\* C16 as claimed: when the caller polls is_full() after every add and calls
\* delete_rows whenever it reports true, the number of pending delete items
\* never exceeds 100,000 in any reachable state.
C16_Original == Len(m_deletables) <= 100000

\* C16, amended: under that discipline the number of pending delete items
\* never exceeds 100,001, and it is at most 100,000 whenever the caller has
\* polled is_full() since its last add.
C16_BoundedBatch ==
    /\ Len(m_deletables) <= 100001
    /\ Polled => Len(m_deletables) <= 100000
    /\ Len(m_deletables) = Len(calls)

\* the poll after the 100,001st add found the batch full and flushed it
C16_Witness ==
    /\ last.op = "delete_rows"
    /\ Len(last.batch) = 100001
    /\ m_deletables = <<>>

----------------------------------------------------------------------------
(* The style engine classifying boundary objects.                           *)

MaxStyleRules == 2

LevelRules ==
    { Rule(<<"boundary">>, <<Wild>>, <<"Boundary">>),
      Rule(<<"boundary">>, <<Wild>>, <<"Extra">>),
      Rule(<<"admin_level">>, <<Wild>>, <<"Extra">>) }

\* "7", "0", "15", "16", "42", "abc" and the empty string
LevelValues ==
    { <<"7">>, <<"0">>, <<"1", "5">>, <<"1", "6">>, <<"4", "2">>, <<"a", "b", "c">>, <<>> }

LevelObjects ==
    { boundary \o level :
        boundary \in { <<>>, << <<<<"boundary">>, <<"administrative">>>> >> },
        level \in { <<>> } \cup { << <<<<"admin_level">>, v>> >> : v \in LevelValues } }

LevelNext ==
    \/ style_pc = "new" /\ \E rules \in RuleSeqs(LevelRules, MaxStyleRules) : LoadStyle(rules)
    \/ \E tags \in LevelObjects : ProcessTags(tags)

SpecLevel == StyleInit /\ [][LevelNext]_vars

\* the integer in [0,15] a value of the universe spells, if it spells one
Spelled(v) ==
    CASE v = <<"7">> -> {7}
      [] v = <<"0">> -> {0}
      [] v = <<"1", "5">> -> {15}
      [] OTHER -> {}

BoundaryFlagged == \E n \in Looked : "Boundary" \in Roles(n)

\* the levels the admin_level attributes of the object last seen spell
ObjectLevels ==
    UNION {Spelled(lookup.tags[n][2]) : n \in {m \in Looked : lookup.tags[m][1] = <<"admin_level">>}}

\* C11: admin level range. After classifying any sequence of objects
\* admin_level is an integer in [0,15]; it is 15 unless the current object is
\* Boundary-flagged and carries an admin_level attribute that parses to an
\* integer in [0,15], in which case it equals that integer ("7" gives 7;
\* "abc" or "42" give 15).
C11_AdminLevelRange ==
    /\ m_admin_level \in 0..15
    /\ IF BoundaryFlagged /\ ObjectLevels # {}
       THEN m_admin_level \in ObjectLevels
       ELSE m_admin_level = 15

\* a Boundary-flagged object with admin_level "7", classified after another
\* object, has admin level 7
C11_Witness ==
    /\ lookup.again
    /\ BoundaryFlagged
    /\ \E n \in Looked : lookup.tags[n] = <<<<"admin_level">>, <<"7">>>>
    /\ m_admin_level = 7

\* a Boundary-flagged object with admin_level "42" or "abc" was classified
\* and has the sentinel 15
C11_SentinelWitness ==
    /\ BoundaryFlagged
    /\ \E n \in Looked : lookup.tags[n] \in { <<<<"admin_level">>, <<"4", "2">>>>,
                                              <<<<"admin_level">>, <<"a", "b", "c">>>> }
    /\ m_admin_level = 15

----------------------------------------------------------------------------
(* The style engine classifying objects with operators, names, main tags    *)
(* and attributes that no rule matches.                                     *)

OperRules ==
    { Rule(<<"operator">>, <<Wild>>, <<"MainOperator">>),
      Rule(<<"operator">>, <<Wild>>, <<"Extra">>),
      Rule(<<"shop">>, <<Wild>>, <<"Main">>),
      Rule(<<"building">>, <<Wild>>, <<"MainFallback">>),
      Rule(<<"name">>, <<Wild>>, <<"Name">>),
      Rule(<<>>, <<>>, <<"Extra">>),
      Rule(<<>>, <<>>, <<"Address">>) }

OperTags ==
    << <<<<"shop">>, <<"bakery">>>>,
       <<<<"building">>, <<"yes">>>>,
       <<<<"operator">>, <<"ACME">>>>,
       <<<<"name">>, <<"Corner">>>> >>

OperObjects == {TagsAt(OperTags, S) : S \in SUBSET (1..Len(OperTags))}

OperNext ==
    \/ style_pc = "new" /\ \E rules \in RuleSeqs(OperRules, MaxStyleRules) : LoadStyle(rules)
    \/ \E tags \in OperObjects : ProcessTags(tags)

SpecOper == StyleInit /\ [][OperNext]_vars

TableHasOperatorRule ==
    \E i \in 1..Len(style) : "MainOperator" \in Range(style[i].flags)

OperatorTags == {n \in Looked : lookup.tags[n][1] = <<"operator">>}

FlaggedOperatorTags == {n \in OperatorTags : "MainOperator" \in Roles(n)}

\* the attributes of the object that go to the names as they are
PlainNames == {n \in Looked : Roles(n) \cap {"Name", "Ref"} # {}}

IsPrefix(p, q) == Len(p) <= Len(q) /\ SubSeq(q, 1, Len(p)) = p

\* C12: operator synthesis. When the rule table has a MainOperator rule and
\* the object carries an operator attribute flagged MainOperator, the operator
\* value is that attribute's value and for every retained main entry one
\* synthetic name, made of the entry's class and the operator value, follows
\* the plain names, the main entries staying as they are; when the table has
\* no MainOperator rule or the object has no operator attribute, the operator
\* value is none and the names are the plain names only.
C12_OperatorSynthesis ==
    /\ (TableHasOperatorRule /\ FlaggedOperatorTags # {}) =>
          /\ \E n \in FlaggedOperatorTags : m_operator = <<lookup.tags[n][2]>>
          /\ Len(m_names) = Cardinality(PlainNames) + Len(m_main)
          /\ \A e \in 1..Len(m_main) :
                /\ m_names[Cardinality(PlainNames) + e][2] = m_operator[1]
                /\ IsPrefix(m_main[e][1], m_names[Cardinality(PlainNames) + e][1])
                /\ m_names[Cardinality(PlainNames) + e][1] # m_main[e][1]
          /\ \A n \in Candidates : Unconditional(n) => Retained(n)
    /\ (style_pc = "loaded" /\ (~TableHasOperatorRule \/ OperatorTags = {})) =>
          /\ m_operator = <<>>
          /\ Len(m_names) = Cardinality(PlainNames)
          /\ \A e \in 1..Len(m_names) : m_names[e] \in Range(lookup.tags)

\* rules operator=MainOperator, shop=Main on {shop:bakery, operator:ACME}:
\* the main entry (shop, bakery) and one synthetic name with the value ACME
C12_Witness ==
    /\ TableHasOperatorRule
    /\ FlaggedOperatorTags # {}
    /\ MainPairs = << <<<<"shop">>, <<"bakery">>>> >>
    /\ m_operator = <<<<"ACME">>>>
    /\ Len(m_names) = 1
    /\ m_names[1][2] = <<"ACME">>

\* an operator attribute under a table without a MainOperator rule
C12_NoRuleWitness ==
    /\ style_pc = "loaded"
    /\ ~TableHasOperatorRule
    /\ OperatorTags # {}
    /\ m_main # <<>>
    /\ m_operator = <<>>

\* the classification of an attribute set by a style object that has
\* classified nothing before
Classified(tags) == process_tags(new_object_data, style_data, tags)

Pairs(s) == {<<s[n][1], s[n][2]>> : n \in 1..Len(s)}

DefaultFlags ==
    IF Defaults = {} THEN 0
    ELSE DeclaredFlags(style[CHOOSE i \in Defaults : \A h \in Defaults : h <= i])

\* C19: default fallback. A rule with neither key nor value pattern sets the
\* table's default flags; an attribute matched by no rule gets exactly the
\* default flags, and an attribute whose resulting flag set is empty
\* contributes nothing to main entries, names, addresses or extras.
C19_DefaultFallback ==
    style_pc = "loaded" =>
        /\ m_default = DefaultFlags
        /\ \A n \in Looked :
              /\ Matching(n) = {} => lookup.flags[n] = DefaultFlags
              /\ Roles(n) = {} =>
                    /\ lookup.flags[n] = 0
                    /\ lookup.tags[n] \notin
                          Pairs(m_main) \cup Pairs(m_names) \cup Pairs(m_address) \cup Pairs(m_extra)

\* a rule without key and value declares Extra, and the attribute that no
\* rule matches is among the extras
C19_Witness ==
    /\ style_pc = "loaded"
    /\ Defaults # {}
    /\ m_default = sf_EXTRA
    /\ \E n \in Looked :
          /\ Matching(n) = {}
          /\ lookup.flags[n] = sf_EXTRA
          /\ lookup.tags[n] \in Pairs(m_extra)

\* no default is declared, and the attribute that no rule matches is nowhere
C19_EmptyWitness ==
    /\ style_pc = "loaded"
    /\ Defaults = {}
    /\ m_main # <<>>
    /\ \E n \in Looked : Matching(n) = {} /\ Roles(n) = {} /\ lookup.flags[n] = 0

----------------------------------------------------------------------------
(* The style engine emitting rows: copy_out and class_list.                 *)

MaxCalls == 2

\* copy_out: one line in the buffer for each main entry of the object
RECURSIVE copy_out(_, _, _, _)
copy_out(rows, osm_type, osm_id, main) ==
    IF main = <<>> THEN rows
    ELSE copy_out(prepare(rows, [osm_type |-> osm_type, osm_id |-> osm_id,
                                 class |-> Head(main)[1]]),
                  osm_type, osm_id, Tail(main))

\* the class an entry of the matcher stands for: the key of a full or key match
entry_class(e) ==
    IF e.type = MT_FULL
    THEN SubSeq(e.name, 1, (CHOOSE n \in 1..Len(e.name) : e.name[n] = Nul) - 1)
    ELSE e.name

\* class_list: the distinct classes of the main-tag rules, comma-separated
RECURSIVE class_list_from(_, _, _)
class_list_from(matcher, n, seen) ==
    IF n > Len(matcher) THEN <<>>
    ELSE IF /\ main_bits(matcher[n].flag)
            /\ matcher[n].type \in {MT_FULL, MT_KEY}
            /\ entry_class(matcher[n]) \notin seen
         THEN (IF seen = {} THEN <<>> ELSE <<Comma>>) \o entry_class(matcher[n])
                  \o class_list_from(matcher, n + 1, seen \cup {entry_class(matcher[n])})
         ELSE class_list_from(matcher, n + 1, seen)

class_list(matcher) == class_list_from(matcher, 1, {})

CopyOut(osm_type, osm_id) ==
    /\ style_pc = "loaded"
    /\ Len(hist) < MaxCalls
    /\ m_rows' = copy_out(m_rows, osm_type, osm_id, m_main)
    /\ hist' = Append(hist, [op |-> "copy_out", osm_type |-> osm_type, osm_id |-> osm_id])
    /\ UNCHANGED <<place, deleter_vars, queue, w_pc, w_buf, log, style_vars>>

ClassList ==
    /\ style_pc = "loaded"
    /\ Len(hist) < MaxCalls
    /\ hist' = Append(hist, [op |-> "class_list", out |-> class_list(m_matcher)])
    /\ UNCHANGED <<place, deleter_vars, m_rows, queue, w_pc, w_buf, log, style_vars>>

EmitRules ==
    { Rule(<<"shop">>, <<Wild>>, <<"Main">>),
      Rule(<<"tourism">>, <<Wild>>, <<"Main">>),
      Rule(<<"operator">>, <<Wild>>, <<"MainOperator">>) }

EmitObjects ==
    { <<>>,
      << <<<<"shop">>, <<"bakery">>>> >>,
      << <<<<"shop">>, <<"bakery">>>>, <<<<"tourism">>, <<"viewpoint">>>> >> }

EmitIds == {<<"N", 1>>, <<"W", 2>>}

EmitNext ==
    \/ style_pc = "new" /\ \E rules \in RuleSeqs(EmitRules, MaxStyleRules) : LoadStyle(rules)
    \/ \E tags \in EmitObjects : ProcessTags(tags)
    \/ \E id \in EmitIds : CopyOut(id[1], id[2])
    \/ ClassList

SpecEmit == StyleInit /\ [][EmitNext]_vars

\* the step is a call of op: the call history grows by a record of it
Called(op) == Len(hist') = Len(hist) + 1 /\ hist'[Len(hist')].op = op

\* C14: row emission. copy_out appends to the insert buffer exactly one row
\* per main entry of the current classification (none when has_data() is
\* false), every row carrying the identity of the object and that entry's
\* class; it does not flush the buffer, does not touch the pending delete
\* list and does not change the classification.
C14_RowEmission ==
    [][Called("copy_out") =>
          /\ Len(m_rows') = Len(m_rows) + Len(m_main)
          /\ SubSeq(m_rows', 1, Len(m_rows)) = m_rows
          /\ \A e \in 1..Len(m_main) :
                m_rows'[Len(m_rows) + e] =
                    [osm_type |-> hist'[Len(hist')].osm_type,
                     osm_id |-> hist'[Len(hist')].osm_id,
                     class |-> m_main[e][1]]
          /\ ~style_has_data(m_main) => m_rows' = m_rows
          /\ UNCHANGED <<queue, w_pc, w_buf, place, m_deletables, object_vars>>]_vars

\* two copy_out calls have put three rows into the buffer, the rows of an
\* object with two main entries last, and nothing was flushed
C14_Witness ==
    /\ Len(hist) = 2
    /\ hist[1].op = "copy_out" /\ hist[2].op = "copy_out"
    /\ Len(m_rows) = 3
    /\ m_rows[2].class = <<"shop">> /\ m_rows[3].class = <<"tourism">>
    /\ m_rows[2].osm_id = m_rows[3].osm_id
    /\ m_rows[1].osm_id # m_rows[2].osm_id
    /\ Len(m_main) = 2
    /\ queue = <<>> /\ m_deletables = <<>>

\* copy_out was called for an object without main entries: no row
C14_EmptyWitness ==
    /\ Len(hist) = 1
    /\ hist[1].op = "copy_out"
    /\ lookup.seen
    /\ ~style_has_data(m_main)
    /\ m_rows = <<>>

\* C18: the rule table is read-only after load. No process_tags, copy_out or
\* class_list call changes the rule sequence, the default flags or the
\* any-operator flag, and that flag is true exactly when some loaded rule's
\* flags include MainOperator.
C18_TableReadOnly ==
    /\ [](style_pc = "loaded" => (m_any_operator_matches <=> TableHasOperatorRule))
    /\ [][style_pc = "loaded" =>
             UNCHANGED <<style_pc, m_matcher, m_default, m_any_operator_matches>>]_vars

\* a table with a MainOperator rule, after process_tags, copy_out and
\* class_list have all been called on it
C18_Witness ==
    /\ style_pc = "loaded"
    /\ m_any_operator_matches
    /\ TableHasOperatorRule
    /\ m_matcher # <<>>
    /\ lookup.again
    /\ \E a, b \in 1..Len(hist) : hist[a].op = "copy_out" /\ hist[b].op = "class_list"

----------------------------------------------------------------------------
(* Loading styles that may hold a rule with an unrecognized flag name.      *)

LoadRules ==
    { Rule(<<"shop">>, <<Wild>>, <<"Main">>),
      Rule(<<"name">>, <<Wild>>, <<"Name">>),
      Rule(<<"shop">>, <<Wild>>, <<"Bogus">>),
      Rule(<<"name">>, <<Wild>>, <<"Name", "Bogus">>) }

LoadObjects ==
    { <<>>,
      << <<<<"shop">>, <<"bakery">>>> >>,
      << <<<<"shop">>, <<"bakery">>>>, <<<<"name">>, <<"Corner">>>> >> }

LoadNext ==
    \/ style_pc = "new" /\ \E rules \in RuleSeqs(LoadRules, MaxRules) : LoadStyle(rules)
    \/ \E tags \in LoadObjects : ProcessTags(tags)

SpecLoad == StyleInit /\ [][LoadNext]_vars

RoleFlags ==
    {"Main", "MainNamed", "MainNamedKey", "MainFallback", "MainOperator", "Name", "Ref",
     "Address", "AddressPoint", "Postcode", "Country", "Extra", "Interpolation", "Boundary"}

Unrecognized(r) == Range(r.flags) \ RoleFlags # {}

====
